---- MODULE Spec2Model ----
(***************************************************************************)
(* A model of rust_transformer_cli: the model selector and embedder        *)
(* construction (src/src/embed_utils.rs), the batched embedding pipeline   *)
(* (tokenize, backbone forward pass, masked mean pooling, L2               *)
(* normalisation) and the foreign-call boundary (src/src/lib.rs).          *)
(*                                                                         *)
(* Strings the code inspects character by character (model names, texts)   *)
(* are sequences of one-character strings.  Floating-point tensors are     *)
(* exact: a hidden-state coordinate is an integer, a pooled mean is an     *)
(* integer numerator over a rational divisor, and a normalised coordinate  *)
(* is num / sqrt(norm2), so that 0 / sqrt(0) (NaN in f32) is visible.      *)
(***************************************************************************)
EXTENDS Integers, Sequences, FiniteSets, TLC

VARIABLES
    embedder,   \* Option<TextEmbedder> held by a Rust caller (main.rs:68)
    handle,     \* *mut EmbedderHandle held by a foreign caller (lib.rs:11-14)
    last        \* the most recent call: its inputs and what it returned

vars == <<embedder, handle, last>>

\* Option::None of a struct or an error, the null handle, and Option::None of
\* a string-like value.
None == [none |-> TRUE]
NULL == [null |-> TRUE]
NoneStr == "none"

(***************************************************************************)
(* Bounds of the model.                                                    *)
(***************************************************************************)
MaxTexts == 3       \* longest `column` handed to embed
MaxFfiTexts == 2    \* largest num_texts handed to embedder_embed_batch
MaxBatch == 2       \* largest batch_size handed to embed
SampleDims == 2     \* leading hidden coordinates with non-zero weights

(***************************************************************************)
(* Characters and str::to_lowercase (embed_utils.rs:286).                  *)
(***************************************************************************)
UpperCase == <<"A","B","C","D","E","F","G","H","I","J","K","L","M",
               "N","O","P","Q","R","S","T","U","V","W","X","Y","Z">>
LowerCase == <<"a","b","c","d","e","f","g","h","i","j","k","l","m",
               "n","o","p","q","r","s","t","u","v","w","x","y","z">>

to_lowercase_char(c) ==
    IF \E i \in 1..Len(UpperCase) : UpperCase[i] = c
    THEN LowerCase[CHOOSE i \in 1..Len(UpperCase) : UpperCase[i] = c]
    ELSE c

to_lowercase(s) == [i \in 1..Len(s) |-> to_lowercase_char(s[i])]

\* The string literals of the selector's match arms (embed_utils.rs:287-288).
MINI_LM_V2 == <<"m","i","n","i","_","l","m","_","v","2">>
MINI_LM == <<"m","i","n","i","_","l","m">>
BERT == <<"b","e","r","t">>
JINA == <<"j","i","n","a">>

\* Model names a caller passes: casings of the names, and near misses.
ModelNames ==
    { BERT, <<"B","E","R","T">>, <<"B","e","r","T">>,
      MINI_LM, <<"M","i","n","i","_","L","M">>,
      MINI_LM_V2, <<"M","I","N","I","_","L","M","_","V","2">>,
      JINA, <<"J","I","N","A">>, <<"j","I","n","A">>,
      <<"g","p","t">>, <<"f","o","o">>, <<"j","i","n">>,
      <<"j","i","n","a"," ">>, <<" ","j","i","n","a">>,
      <<"j","i","n","a","2">>, <<"b","e","r">>,
      <<"m","i","n","i","_","l","m","_","v">>, <<>> }

(***************************************************************************)
(* The selector: the match of build_text_embedder (embed_utils.rs:286-294).*)
(* The arms are whole-string patterns on the lower-cased name.             *)
(***************************************************************************)
SelectModelType_prefix(model_name) ==
    LET lower == to_lowercase(model_name)
        starts(p) == Len(lower) >= Len(p) /\ SubSeq(lower, 1, Len(p)) = p
    IN  IF starts(MINI_LM_V2) \/ starts(MINI_LM) \/ starts(BERT) THEN "Bert"
        ELSE IF starts(JINA) THEN "Jina"
        ELSE NoneStr

SelectModelType(model_name) ==
    LET lower == to_lowercase(model_name)
    IN  IF lower = MINI_LM_V2 \/ lower = MINI_LM \/ lower = BERT THEN "Bert"
        ELSE IF lower = JINA THEN "Jina"
        ELSE NoneStr

\* The names the error message of embed_utils.rs:291 lists.
SupportedInMessage == <<MINI_LM_V2, JINA>>

UnknownModelError(model_name) ==
    [kind |-> "ModelTypeError", what |-> "Unknown model",
     name |-> model_name, supported |-> SupportedInMessage]

(***************************************************************************)
(* Hyperparameter presets.                                                 *)
(***************************************************************************)
\* The Config literal of get_bert_model (embed_utils.rs:68-85).
BertConfig ==
    [hidden_size |-> 384, num_hidden_layers |-> 6, num_attention_heads |-> 12,
     max_position_embeddings |-> 512, position_embedding_type |-> "Absolute"]

\* Config::v2_base (jina_implementation/mod.rs:32-47).
v2_base ==
    [hidden_size |-> 768, num_hidden_layers |-> 12, num_attention_heads |-> 12,
     max_position_embeddings |-> 8192, position_embedding_type |-> "Alibi"]

(***************************************************************************)
(* The environment a construction reads: the two folder variables, the     *)
(* content of the folder they name, and what the artifacts turn out to be. *)
(***************************************************************************)
VarStates == {"unset", "not_unicode", "set"}

Envs ==
    { e \in [BERT_MODEL_FOLDER : VarStates, JINA_MODEL_FOLDER : VarStates,
             tokenizer_json : BOOLEAN, model_safetensors : BOOLEAN] :
        (e.BERT_MODEL_FOLDER # "set" /\ e.JINA_MODEL_FOLDER # "set")
            => (~e.tokenizer_json /\ ~e.model_safetensors) }

\* The first step of the construction that fails, if any, and the tokenizer
\* definition the tokenizer file holds: whether its post-processor adds the
\* special tokens, and the padding it configures: none, or PaddingParams
\* with a strategy and pad_to_multiple_of (0 for None).
Faults == {"none", "hub_tokenizer", "hub_weights", "tokenizer", "weights", "model"}

Artifacts ==
    { a \in [fault : Faults, special : BOOLEAN, padding : {"None", "Fixed"},
             pad_to_multiple_of : {0, 4}] :
        /\ a.fault # "none" => (a.special /\ a.padding = "None")
        /\ a.padding = "None" => a.pad_to_multiple_of = 0 }

Ok(v) == [ok |-> TRUE, value |-> v, error |-> None]
Err(e) == [ok |-> FALSE, value |-> None, error |-> e]

\* ModelType::get_local_model_path (embed_utils.rs:94-99): std::env::var(..).ok()
\* is Some only for a variable that is set and valid Unicode.
get_local_model_path(model_type, env) ==
    LET v == IF model_type = "Bert" THEN env.BERT_MODEL_FOLDER
             ELSE env.JINA_MODEL_FOLDER
    IN  IF v = "set" THEN "local_path" ELSE NoneStr

\* ModelType::load_from_local (embed_utils.rs:101-120).
load_from_local(env) ==
    IF ~env.tokenizer_json
    THEN Err([kind |-> "Io", io_kind |-> "NotFound", file |-> "tokenizer.json"])
    ELSE IF ~env.model_safetensors
    THEN Err([kind |-> "Io", io_kind |-> "NotFound", file |-> "model.safetensors"])
    ELSE Ok("local")

\* ModelType::load_from_hub (embed_utils.rs:122-130): the result and the number
\* of files requested from the registry.
load_from_hub(art) ==
    IF art.fault = "hub_tokenizer"
    THEN [result |-> Err([kind |-> "HfHub", file |-> "tokenizer.json"]), gets |-> 1]
    ELSE IF art.fault = "hub_weights"
    THEN [result |-> Err([kind |-> "HfHub", file |-> "model.safetensors"]), gets |-> 2]
    ELSE [result |-> Ok("hub"), gets |-> 2]

\* The artifact resolution of ModelType::build_text_embedder (embed_utils.rs:139-143).
ResolveArtifacts_fallback(model_type, env, art) ==
    IF get_local_model_path(model_type, env) # NoneStr /\ load_from_local(env).ok
    THEN [result |-> load_from_local(env), gets |-> 0]
    ELSE load_from_hub(art)

ResolveArtifacts(model_type, env, art) ==
    IF get_local_model_path(model_type, env) # NoneStr
    THEN [result |-> load_from_local(env), gets |-> 0]
    ELSE load_from_hub(art)

\* get_bert_model / get_jina_model (embed_utils.rs:53-92): the backbone with
\* the preset of its architecture.
get_bert_model_v2(model_type, art) ==
    IF model_type # "Bert"
    THEN Err([kind |-> "ModelTypeError", what |-> "Incorrect Model Type"])
    ELSE IF art.fault = "model" THEN Err([kind |-> "Candle", at |-> "BertModel::load"])
    ELSE Ok([arch |-> "Bert", config |-> v2_base])

get_bert_model(model_type, art) ==
    IF model_type # "Bert"
    THEN Err([kind |-> "ModelTypeError", what |-> "Incorrect Model Type"])
    ELSE IF art.fault = "model" THEN Err([kind |-> "Candle", at |-> "BertModel::load"])
    ELSE Ok([arch |-> "Bert", config |-> BertConfig])

get_jina_model(model_type, art) ==
    IF model_type # "Jina"
    THEN Err([kind |-> "ModelTypeError", what |-> "Incorrect Model Type"])
    ELSE IF art.fault = "model" THEN Err([kind |-> "Candle", at |-> "JinaModel::load"])
    ELSE Ok([arch |-> "Jina", config |-> v2_base])

\* Tokenizer::from_file (embed_utils.rs:145).  The two registry repositories
\* of get_model_id (embed_utils.rs:46-51) hold BERT tokenizers whose
\* post-processor adds the special tokens; a local folder holds any file.
Tokenizer_from_file(paths, art) ==
    IF art.fault = "tokenizer"
    THEN Err([kind |-> "Tokenizer", at |-> "Tokenizer::from_file"])
    ELSE Ok([special |-> IF paths = "hub" THEN TRUE ELSE art.special,
             padding |-> art.padding,
             pad_to_multiple_of |-> IF paths = "hub" THEN 0
                                    ELSE art.pad_to_multiple_of])

\* ModelType::build_text_embedder (embed_utils.rs:132-156).
ModelType_build_text_embedder_partial(model_type, env, art) ==
    LET paths == ResolveArtifacts(model_type, env, art)
        tokenizer == Tokenizer_from_file(paths.result.value, art)
        model == IF model_type = "Bert" THEN get_bert_model(model_type, art)
                 ELSE get_jina_model(model_type, art)
    IN  IF ~paths.result.ok THEN paths
        ELSE IF ~tokenizer.ok THEN [result |-> tokenizer, gets |-> paths.gets]
        ELSE IF art.fault = "weights" \/ ~model.ok
        THEN [result |-> Ok([model |-> None, tokenizer |-> tokenizer.value]),
              gets |-> paths.gets]
        ELSE [result |-> Ok([model |-> model.value, tokenizer |-> tokenizer.value]),
              gets |-> paths.gets]

ModelType_build_text_embedder(model_type, env, art) ==
    LET paths == ResolveArtifacts(model_type, env, art)
        tokenizer == Tokenizer_from_file(paths.result.value, art)
        model == IF model_type = "Bert" THEN get_bert_model(model_type, art)
                 ELSE get_jina_model(model_type, art)
    IN  IF ~paths.result.ok THEN paths
        ELSE IF ~tokenizer.ok THEN [result |-> tokenizer, gets |-> paths.gets]
        ELSE IF art.fault = "weights"
        THEN [result |-> Err([kind |-> "Candle", at |-> "from_mmaped_safetensors"]),
              gets |-> paths.gets]
        ELSE IF ~model.ok THEN [result |-> model, gets |-> paths.gets]
        ELSE [result |-> Ok([model |-> model.value, tokenizer |-> tokenizer.value]),
              gets |-> paths.gets]

\* build_text_embedder (embed_utils.rs:283-297).
build_text_embedder(model_name, env, art) ==
    LET model_type == SelectModelType(model_name)
    IN  IF model_type = NoneStr
        THEN [result |-> Err(UnknownModelError(model_name)), gets |-> 0,
              model_type |-> NoneStr]
        ELSE LET b == ModelType_build_text_embedder(model_type, env, art)
             IN  [result |-> b.result, gets |-> b.gets, model_type |-> model_type]

(***************************************************************************)
(* The tokenizer (an external collaborator): every character of a text is  *)
(* one word of the vocabulary, and the post-processor of a BERT tokenizer  *)
(* wraps the ids in [CLS] = 101 and [SEP] = 102.  Padding is on the right,  *)
(* with pad id 0 and mask 0.                                               *)
(***************************************************************************)
Texts == { <<>>, <<"a">>, <<"b">>, <<"a","b">> }

Columns == UNION { [1..n -> Texts] : n \in 0..MaxTexts }

token_to_id(c) ==
    IF \E i \in 1..Len(LowerCase) : LowerCase[i] = c
    THEN CHOOSE i \in 1..Len(LowerCase) : LowerCase[i] = c
    ELSE 100

RECURSIVE SeqMax(_)
SeqMax(s) == IF s = <<>> THEN 0
             ELSE LET m == SeqMax(Tail(s)) IN IF Head(s) > m THEN Head(s) ELSE m

RECURSIVE SeqSum(_)
SeqSum(s) == IF s = <<>> THEN 0 ELSE Head(s) + SeqSum(Tail(s))

Zeros(n) == [i \in 1..n |-> 0]
Ones(n) == [i \in 1..n |-> 1]

encode(tokenizer, text, add_special_tokens) ==
    LET words == [i \in 1..Len(text) |-> token_to_id(text[i])]
        ids == IF tokenizer.special /\ add_special_tokens
               THEN <<101>> \o words \o <<102>> ELSE words
    IN  [ids |-> ids, attention_mask |-> Ones(Len(ids))]

pad_encoding(e, n) ==
    IF Len(e.ids) >= n THEN e
    ELSE [ids |-> e.ids \o Zeros(n - Len(e.ids)),
          attention_mask |-> e.attention_mask \o Zeros(n - Len(e.ids))]

round_up(n, multiple) ==
    IF multiple > 0 /\ n % multiple > 0 THEN n + (multiple - (n % multiple)) ELSE n

\* Tokenizer::encode_batch under the padding the tokenizer carries: none,
\* a fixed length (8 here), or the longest encoding of the batch, rounded up
\* to a multiple of pad_to_multiple_of when the padding parameters have one.
encode_batch(tokenizer, chunk, add_special_tokens) ==
    LET encs == [i \in 1..Len(chunk) |-> encode(tokenizer, chunk[i], add_special_tokens)]
        longest == SeqMax([i \in 1..Len(chunk) |-> Len(encs[i].ids)])
        n == IF tokenizer.padding = "BatchLongest" THEN longest
             ELSE IF tokenizer.padding = "Fixed" THEN 8
             ELSE 0
    IN  [i \in 1..Len(chunk) |->
            pad_encoding(encs[i], round_up(n, tokenizer.pad_to_multiple_of))]

(***************************************************************************)
(* The backbones.  The weights are data: the model fixes a weight store    *)
(* whose embedding tables are non-zero on the first SampleDims hidden      *)
(* coordinates only, so a hidden vector of hidden_size coordinates is      *)
(* written as its first SampleDims coordinates and the tensor's dims carry *)
(* the full extent.  The float kernels (LayerNorm, the linear maps, GELU)  *)
(* are left out and the softmax weights are positive integers; what is     *)
(* kept is which positions each output position reads, and with which      *)
(* additive attention bias.                                                *)
(***************************************************************************)
word_embeddings(id, d) == ((3 * (id + 1) * (d + 1) - 1) % 7) - 3
token_type_embeddings(d) == IF d = 1 THEN 1 ELSE 0
position_embeddings(i, d) == ((i + d) % 3) - 1

Abs(x) == IF x < 0 THEN -x ELSE x

\* exp of the ALiBi bias of one head, distance * slope with slope < 0
\* (jina_implementation/mod.rs:296-327, 348): largest at distance 0.
alibi_weight(i, j) == IF Abs(i - j) = 0 THEN 2 ELSE 1

\* BertModel::forward of candle_transformers, called at embed_utils.rs:188:
\* learned absolute positions, and the attention mask turned into a
\* large-negative additive bias, so a masked position gets softmax weight 0.
BertModel_forward(model, input_ids, attention_mask) ==
    LET S == IF input_ids = <<>> THEN 0 ELSE Len(input_ids[1])
        x(b, i, d) == word_embeddings(input_ids[b][i], d) + token_type_embeddings(d)
                        + position_embeddings(i, d)
        ctx(b, d) == SeqSum([j \in 1..S |-> attention_mask[b][j] * x(b, j, d)])
    IN  [dims |-> <<Len(input_ids), S, model.config.hidden_size>>,
         data |-> [b \in 1..Len(input_ids) |->
                     [i \in 1..S |-> [d \in 1..SampleDims |-> x(b, i, d) + ctx(b, d)]]]]

\* JinaModel::forward (jina_implementation/mod.rs:374-383): no position
\* embeddings (116-127), the ALiBi bias sliced to seq_len (345-355) and added
\* to the scores (166-184); _attention_mask is not read, so every position of
\* the row, padding included, is attended to.
JinaModel_forward(model, input_ids, attention_mask) ==
    LET S == IF input_ids = <<>> THEN 0 ELSE Len(input_ids[1])
        x(b, i, d) == word_embeddings(input_ids[b][i], d) + token_type_embeddings(d)
        ctx(b, i, d) == SeqSum([j \in 1..S |-> alibi_weight(i, j) * x(b, j, d)])
    IN  [dims |-> <<Len(input_ids), S, model.config.hidden_size>>,
         data |-> [b \in 1..Len(input_ids) |->
                     [i \in 1..S |-> [d \in 1..SampleDims |-> x(b, i, d) + ctx(b, i, d)]]]]

\* The dynamic dispatch of EmbedModel::forward (embed_utils.rs:167-205).
EmbedModel_forward(model, input_ids, token_type_ids, attention_mask) ==
    IF model.arch = "Bert" THEN BertModel_forward(model, input_ids, attention_mask)
    ELSE JinaModel_forward(model, input_ids, attention_mask)

(***************************************************************************)
(* Pooling and normalisation (embed_utils.rs:256-272).                     *)
(***************************************************************************)
\* The floor 1e-8 of the token count, as the fraction n / d.
CountFloor == [n |-> 1, d |-> 100000000]

\* embed_utils.rs:256-260: mask, sum over the sequence, divide by the clamped
\* count.  A row of the mean is num / den with den the fraction n / d.
mean_pool_unmasked(embeddings, attention_mask) ==
    LET B == embeddings.dims[1]
        S == embeddings.dims[2]
        sum_embeddings(b) ==
            [d \in 1..SampleDims |-> SeqSum([i \in 1..S |-> embeddings.data[b][i][d]])]
    IN  [dims |-> <<B, embeddings.dims[3]>>,
         data |-> [b \in 1..B |->
                     [num |-> sum_embeddings(b),
                      den |-> IF S >= 1 THEN [n |-> S, d |-> 1] ELSE CountFloor]]]

mean_pool(embeddings, attention_mask) ==
    LET B == embeddings.dims[1]
        S == embeddings.dims[2]
        masked(b) == [i \in 1..S |-> [d \in 1..SampleDims |->
                        embeddings.data[b][i][d] * attention_mask[b][i]]]
        sum_embeddings(b) ==
            [d \in 1..SampleDims |-> SeqSum([i \in 1..S |-> masked(b)[i][d]])]
        count(b) == SeqSum(attention_mask[b])
        real_token_counts(b) ==
            IF count(b) >= 1 THEN [n |-> count(b), d |-> 1] ELSE CountFloor
    IN  [dims |-> <<B, embeddings.dims[3]>>,
         data |-> [b \in 1..B |->
                     [num |-> sum_embeddings(b), den |-> real_token_counts(b)]]]

RECURSIVE Gcd(_, _)
Gcd(a, b) == IF b = 0 THEN a ELSE Gcd(b, a % b)

RECURSIVE SeqGcd(_)
SeqGcd(s) == IF s = <<>> THEN 0 ELSE Gcd(Abs(Head(s)), SeqGcd(Tail(s)))

\* A coordinate of a normalised row is num[d] / sqrt(norm2), in lowest terms.
\* norm2 = 0 is the division 0 / sqrt(0), which is NaN in f32.
SurdRow(num, sumsq) ==
    LET g == SeqGcd(num)
    IN  IF g = 0 THEN [num |-> num, norm2 |-> sumsq]
        ELSE [num |-> [d \in 1..Len(num) |-> num[d] \div g],
              norm2 |-> sumsq \div (g * g)]

\* normalize_l2 (embed_utils.rs:270-272): v / sqrt(sum(v^2)), row by row, with
\* nothing between the square root and the division.  The positive divisor
\* den of the mean cancels between the row and its norm.
normalize_l2(v) ==
    [dims |-> v.dims,
     data |-> [b \in 1..v.dims[1] |->
                 LET num == v.data[b].num
                     sumsq == SeqSum([d \in 1..Len(num) |-> num[d] * num[d]])
                 IN  SurdRow(num, sumsq)]]

\* Tensor::to_vec2 (embed_utils.rs:263): one Vec<f32> of dims[2] floats per row.
to_vec2(t) ==
    [b \in 1..t.dims[1] |->
        [dim |-> t.dims[2], num |-> t.data[b].num, norm2 |-> t.data[b].norm2]]

\* Vec::default(): the empty vector.
EmptyVec == [dim |-> 0, num |-> <<>>, norm2 |-> 0]

(***************************************************************************)
(* Embed::embed (embed_utils.rs:207-268).                                  *)
(***************************************************************************)
\* What goes wrong in a call, if anything: the chunk and the step.
Stages == {"tokenize", "tensor", "forward", "pool"}

EmbedFaults ==
    {[chunk |-> 0, stage |-> "none"]}
        \cup {[chunk |-> k, stage |-> s] : k \in 1..MaxTexts, s \in Stages}

StageError(stage) ==
    IF stage = "tokenize" THEN [kind |-> "Tokenizer", at |-> "encode_batch"]
    ELSE [kind |-> "Candle", at |-> stage]

\* The `?` of the chunk loop: the function returns the error, and
\* all_embeddings is dropped with the frame.
Propagate_partial(error, all_embeddings, forwards) ==
    [ok |-> FALSE, value |-> all_embeddings, error |-> error, forwards |-> forwards]

Propagate(error, all_embeddings, forwards) ==
    [ok |-> FALSE, value |-> <<>>, error |-> error, forwards |-> forwards]

\* Vec::extend (embed_utils.rs:264).
extend_front(all_embeddings, chunk_embeddings) == chunk_embeddings \o all_embeddings

extend(all_embeddings, chunk_embeddings) == all_embeddings \o chunk_embeddings

\* The padding set-up of embed_utils.rs:215-224: the strategy of the padding
\* parameters the tokenizer has is overwritten and their other fields stay;
\* a tokenizer without padding gets the default parameters.
set_batch_longest(tokenizer) == [tokenizer EXCEPT !.padding = "BatchLongest"]

Min(a, b) == IF a < b THEN a ELSE b

\* embed_utils.rs:256-263: pooling, normalisation and to_vec2 of one chunk.
normalize_chunk(embeddings, attention_mask, mean_embeddings) ==
    [stackable |-> TRUE,
     seq_len |-> embeddings.dims[2],
     embeddings |-> embeddings,
     attention_mask |-> attention_mask,
     mean_embeddings |-> mean_embeddings,
     chunk_embeddings |-> to_vec2(normalize_l2(mean_embeddings))]

pool_chunk(embeddings, attention_mask) ==
    normalize_chunk(embeddings, attention_mask, mean_pool(embeddings, attention_mask))

\* Tensor::dims of a stacked tensor of rows.
Shape(rows) == <<Len(rows), IF rows = <<>> THEN 0 ELSE Len(rows[1])>>

\* embed_utils.rs:248-254: Tensor::stack, which needs rows of one length,
\* zeros_like for the segment ids, and the forward pass.
forward_chunk(model, token_ids, attention_mask) ==
    IF \E i \in 1..Len(token_ids) : Len(token_ids[i]) # Len(token_ids[1])
    THEN [stackable |-> FALSE, seq_len |-> 0, chunk_embeddings |-> <<>>]
    ELSE pool_chunk(
             EmbedModel_forward(model, token_ids,
                 [i \in 1..Len(token_ids) |-> Zeros(Len(token_ids[i]))],
                 attention_mask),
             attention_mask)
         @@ [token_ids |-> Shape(token_ids),
             token_type_ids |->
                 Shape([i \in 1..Len(token_ids) |-> Zeros(Len(token_ids[i]))]),
             mask |-> Shape(attention_mask)]

\* embed_utils.rs:232-246: the ids and the attention mask of every encoding.
tensors_of(model, tokens) ==
    forward_chunk(model,
                  [i \in 1..Len(tokens) |-> tokens[i].ids],
                  [i \in 1..Len(tokens) |-> tokens[i].attention_mask])

\* The body of the chunk loop for one chunk (embed_utils.rs:230-263).
embed_chunk(model, tokenizer, chunk) ==
    tensors_of(model, encode_batch(tokenizer, chunk, TRUE))

\* One pass of the loop body with its `?` exits: the fault of this chunk, if
\* any, decides where the pass ends.
\* passes lists, one after another, what each completed pass worked on.
chunk_step(stage, c, chunk, done) ==
    IF stage = "tokenize"
    THEN Propagate(StageError("tokenize"), done.value, done.forwards)
    ELSE IF stage = "tensor" \/ ~c.stackable
    THEN Propagate(StageError("tensor"), done.value, done.forwards)
    ELSE IF stage = "forward"
    THEN Propagate(StageError("forward"), done.value, done.forwards)
    ELSE IF stage = "pool"
    THEN Propagate(StageError("pool"), done.value, done.forwards + 1)
    ELSE [ok |-> TRUE, value |-> extend(done.value, c.chunk_embeddings),
          error |-> None, forwards |-> done.forwards + 1,
          passes |-> Append(done.passes, [chunk |-> chunk] @@ c)]

\* slice::chunks (embed_utils.rs:229): the next chunk of the column, and the
\* texts left after it.
next_chunk_overlapping(column, batch_size) ==
    SubSeq(column, 1, Min(batch_size + 1, Len(column)))

next_chunk(column, batch_size) == SubSeq(column, 1, Min(batch_size, Len(column)))

after_chunk(column, batch_size) ==
    SubSeq(column, Min(batch_size, Len(column)) + 1, Len(column))

\* The number of chunks of n texts.
NumChunks(n, batch_size) == (n + batch_size - 1) \div batch_size

\* The chunk loop of embed_utils.rs:229-266 from chunk number k on:
\* column.chunks(batch_size) hands out the next batch_size texts, or the rest.
RECURSIVE embed_chunks(_, _, _, _, _, _, _)
embed_chunks(model, tokenizer, column, batch_size, fault, k, done) ==
    IF column = <<>> \/ ~done.ok THEN done
    ELSE embed_chunks(model, tokenizer, after_chunk(column, batch_size),
             batch_size, fault, k + 1,
             chunk_step(IF fault.chunk = k THEN fault.stage ELSE "none",
                        embed_chunk(model, tokenizer, next_chunk(column, batch_size)),
                        next_chunk(column, batch_size), done))

\* Embed::embed: the result, and the embedder as the call leaves it.
Embed_embed(e, column, batch_size, fault) ==
    [result |-> embed_chunks(e.model, set_batch_longest(e.tokenizer), column,
                             batch_size, fault, 1,
                             [ok |-> TRUE, value |-> <<>>, error |-> None,
                              forwards |-> 0, passes |-> <<>>]),
     embedder |-> [e EXCEPT !.tokenizer = set_batch_longest(e.tokenizer)]]

\* into_iter().next().unwrap_or_default() of embed_utils.rs:278, after the `?`
\* of embed_utils.rs:277.
first_or_default_lenient(r) ==
    [result |-> [ok |-> TRUE,
                 value |-> IF ~r.result.ok \/ r.result.value = <<>> THEN EmptyVec
                           ELSE Head(r.result.value),
                 error |-> None],
     embedder |-> r.embedder]

first_or_default(r) ==
    [result |-> IF ~r.result.ok
                THEN [ok |-> FALSE, value |-> EmptyVec, error |-> r.result.error]
                ELSE [ok |-> TRUE,
                      value |-> IF r.result.value = <<>> THEN EmptyVec
                                ELSE Head(r.result.value),
                      error |-> None],
     embedder |-> r.embedder]

\* TextEmbedder::embed (embed_utils.rs:274-280).
TextEmbedder_embed(e, text, fault) == first_or_default(Embed_embed(e, <<text>>, 1, fault))

(***************************************************************************)
(* Construction.                                                           *)
(***************************************************************************)
NoCall == [op |-> "none"]

Init ==
    /\ embedder = None
    /\ handle = NULL
    /\ last = NoCall

\* A Rust caller (main.rs:68) constructs an embedder.  The modelled process
\* is either a Rust caller or a foreign caller, never both at once, and it
\* issues a call only after it has taken the result of the previous one.
Build ==
    /\ last = NoCall
    /\ handle = NULL
    /\ \E model_name \in ModelNames, env \in Envs, art \in Artifacts :
         \E b \in {build_text_embedder(model_name, env, art)} :
             /\ embedder' = b.result.value
             /\ last' = [op |-> "build", name |-> model_name, env |-> env,
                         art |-> art, model_type |-> b.model_type,
                         result |-> b.result, gets |-> b.gets]
    /\ UNCHANGED handle

\* embedder_init (lib.rs:39-60).  The pointer is null, or names bytes that
\* are not UTF-8, or names a string.
NamePointers == {[ptr |-> "null"], [ptr |-> "invalid_utf8"]}
                    \cup {[ptr |-> "str", s |-> n] : n \in ModelNames}

embedder_init(model_name, env, art) ==
    IF model_name.ptr = "null" THEN [handle |-> NULL, gets |-> 0, build |-> None]
    ELSE IF model_name.ptr = "invalid_utf8"
    THEN [handle |-> NULL, gets |-> 0, build |-> None]
    ELSE LET b == build_text_embedder(model_name.s, env, art)
         IN  [handle |-> IF b.result.ok
                         THEN [embedder |-> b.result.value, last_error |-> None]
                         ELSE NULL,
              gets |-> b.gets, build |-> b.result]

EmbedderInit ==
    /\ last = NoCall
    /\ embedder = None
    /\ handle = NULL
    /\ \E model_name \in NamePointers, env \in Envs, art \in Artifacts :
         \E r \in {embedder_init(model_name, env, art)} :
             /\ handle' = r.handle
             /\ last' = [op |-> "embedder_init", name |-> model_name, env |-> env,
                         art |-> art, build |-> r.build, gets |-> r.gets,
                         returned |-> r.handle]
    /\ UNCHANGED embedder

\* embedder_free (lib.rs:281-286).
EmbedderFree ==
    /\ last = NoCall
    /\ handle # NULL
    /\ handle' = NULL
    /\ last' = [op |-> "embedder_free"]
    /\ UNCHANGED embedder

\* A Rust caller embeds a column of texts (Embed::embed).
EmbedBatch ==
    /\ last = NoCall
    /\ embedder # None
    /\ \E column \in Columns, batch_size \in 1..MaxBatch, fault \in EmbedFaults :
         /\ fault.chunk <= NumChunks(Len(column), batch_size)
         /\ \E r \in {Embed_embed(embedder, column, batch_size, fault)} :
             /\ embedder' = r.embedder
             /\ last' = [op |-> "embed_batch", texts |-> column,
                         batch_size |-> batch_size, fault |-> fault,
                         result |-> r.result]
    /\ UNCHANGED handle

\* A Rust caller embeds one text (TextEmbedder::embed, main.rs:87, 115).
EmbedOne ==
    /\ last = NoCall
    /\ embedder # None
    /\ \E text \in Texts, fault \in EmbedFaults :
         /\ fault.chunk <= 1
         /\ \E r \in {TextEmbedder_embed(embedder, text, fault)} :
             /\ embedder' = r.embedder
             /\ last' = [op |-> "embed_one", text |-> text, fault |-> fault,
                         result |-> r.result]
    /\ UNCHANGED handle

\* The caller takes the result of the call and goes on: calls are issued one
\* after another, each on the caller's thread.
Resume ==
    /\ last # NoCall
    /\ last' = NoCall
    /\ UNCHANGED <<embedder, handle>>

Next == Build \/ EmbedderInit \/ EmbedderFree \/ EmbedBatch \/ EmbedOne \/ Resume

Spec == Init /\ [][Next]_vars

(***************************************************************************)
(* The foreign-call boundary for embedding (lib.rs:79-255).  The caller's  *)
(* output buffer is its capacity and the copies made into it, each a       *)
(* vector placed at an offset; an output parameter is the caller's memory: *)
(* the value it held before the call, until the call writes it.            *)
(***************************************************************************)
\* C strings a foreign caller passes as texts.
FfiTexts == { <<"a">>, <<"a","b">> }

TextPointers == {[ptr |-> "null"], [ptr |-> "invalid_utf8"]}
                    \cup {[ptr |-> "str", s |-> t] : t \in FfiTexts}

\* The texts array: a null pointer, or num_texts pointers.
TextArrays ==
    {[ptr |-> "null", items |-> <<>>]}
        \cup {[ptr |-> "array", items |-> a] :
                a \in UNION { [1..n -> TextPointers] : n \in 0..MaxFfiTexts }}

\* Capacities of the caller's buffer, in floats: around the multiples of the
\* two hidden sizes.
BufferSizes ==
    {n \in UNION { {k * h - 1, k * h} : k \in 0..MaxFfiTexts,
                     h \in {BertConfig.hidden_size, v2_base.hidden_size} } : n >= 0}

\* What the caller's output parameters hold before the call.
PriorValues == {0, v2_base.hidden_size}

\* The text whose embedding fails, if any, and the failing step.
FfiFaults ==
    {[text |-> 0, stage |-> "none"]}
        \cup {[text |-> i, stage |-> "forward"] : i \in 1..MaxFfiTexts}

FaultOfText(fault, i) ==
    IF fault.text = i THEN [chunk |-> 1, stage |-> fault.stage]
    ELSE [chunk |-> 0, stage |-> "none"]

\* The bounds check before slice::from_raw_parts_mut and copy_from_slice
\* (lib.rs:112 with offset 0, lib.rs:195).
exceeds_len_only(offset, len, buffer_size) == len > buffer_size

exceeds(offset, len, buffer_size) == offset + len > buffer_size

\* The match on handle.embedder.embed of embedder_embed (lib.rs:107-131).
embed_copy_out(h, r, buffer_size, actual_size) ==
    IF ~r.result.ok
    THEN [code |-> "EmbeddingFailed",
          handle |-> [embedder |-> r.embedder,
                      last_error |-> [what |-> "Embedding failed",
                                      error |-> r.result.error]],
          copies |-> <<>>, actual_size |-> actual_size]
    ELSE IF exceeds(0, r.result.value.dim, buffer_size)
    THEN [code |-> "BufferTooSmall",
          handle |-> [embedder |-> r.embedder,
                      last_error |-> [what |-> "Buffer too small",
                                      need |-> r.result.value.dim,
                                      got |-> buffer_size]],
          copies |-> <<>>, actual_size |-> [actual_size EXCEPT !.value = r.result.value.dim]]
    ELSE [code |-> "Success",
          handle |-> [embedder |-> r.embedder, last_error |-> None],
          copies |-> <<[at |-> 0, vec |-> r.result.value]>>,
          actual_size |-> [actual_size EXCEPT !.value = r.result.value.dim]]

\* embedder_embed (lib.rs:79-132).  output_buffer is "null" or "valid";
\* actual_size is a pointer, null or to a variable of the caller.
embedder_embed(h, text, output_buffer, buffer_size, actual_size, fault) ==
    IF h = NULL
    THEN [code |-> "InvalidHandle", handle |-> h, copies |-> <<>>,
          actual_size |-> actual_size]
    ELSE IF text.ptr = "null" \/ output_buffer = "null" \/ actual_size.null
    THEN [code |-> "NullPointer", handle |-> h, copies |-> <<>>,
          actual_size |-> actual_size]
    ELSE IF text.ptr = "invalid_utf8"
    THEN [code |-> "InvalidUtf8",
          handle |-> [h EXCEPT !.last_error = [what |-> "Invalid UTF-8"]],
          copies |-> <<>>, actual_size |-> actual_size]
    ELSE embed_copy_out(h, TextEmbedder_embed(h.embedder, text.s, fault),
                        buffer_size, actual_size)

\* One pass of the loop of embedder_embed_batch (lib.rs:174-216) for the text
\* at 0-based index i, from the loop state acc; r is what handle.embedder.embed
\* returns for it.
batch_pass(acc, i, text_ptr, r, buffer_size) ==
    IF text_ptr.ptr = "null"
    THEN [acc EXCEPT !.code = "NullPointer",
                     !.handle.last_error = [what |-> "Null text pointer", index |-> i]]
    ELSE IF text_ptr.ptr = "invalid_utf8"
    THEN [acc EXCEPT !.code = "InvalidUtf8",
                     !.handle.last_error = [what |-> "Invalid UTF-8", index |-> i]]
    ELSE IF ~r.result.ok
    THEN [acc EXCEPT !.code = "EmbeddingFailed",
                     !.handle = [embedder |-> r.embedder,
                                 last_error |-> [what |-> "Embedding failed",
                                                 index |-> i,
                                                 error |-> r.result.error]]]
    ELSE IF exceeds(acc.offset, r.result.value.dim, buffer_size)
    THEN [acc EXCEPT !.code = "BufferTooSmall",
                     !.handle = [embedder |-> r.embedder,
                                 last_error |-> [what |-> "Buffer overflow",
                                                 index |-> i,
                                                 need |-> acc.offset + r.result.value.dim,
                                                 buffer |-> buffer_size]],
                     !.embedding_dim.value = IF i = 0 THEN r.result.value.dim ELSE @]
    ELSE [acc EXCEPT !.handle.embedder = r.embedder,
                     !.embedding_dim.value = IF i = 0 THEN r.result.value.dim ELSE @,
                     !.copies = Append(@, [at |-> acc.offset, vec |-> r.result.value]),
                     !.offset = @ + r.result.value.dim,
                     !.offsets = Append(@, acc.offset + r.result.value.dim)]

\* The loop of lib.rs:174-216 from index i on; a return ends it.
RECURSIVE batch_loop(_, _, _, _, _)
batch_loop(acc, items, i, buffer_size, fault) ==
    IF i >= Len(items) \/ acc.code # "running" THEN acc
    ELSE batch_loop(
             batch_pass(acc, i, items[i + 1],
                        IF items[i + 1].ptr = "str"
                        THEN TextEmbedder_embed(acc.handle.embedder, items[i + 1].s,
                                                FaultOfText(fault, i + 1))
                        ELSE None,
                        buffer_size),
             items, i + 1, buffer_size, fault)

\* lib.rs:218-220: the loop ran to its end.
batch_finish(acc) ==
    IF acc.code # "running" THEN acc
    ELSE [acc EXCEPT !.code = "Success",
                     !.total_written.value = acc.offset,
                     !.handle.last_error = None]

\* embedder_embed_batch (lib.rs:152-221); num_texts is the length of the
\* array texts points to.
embedder_embed_batch(h, texts, output_buffer, buffer_size, embedding_dim, total_written, fault) ==
    IF \/ h = NULL \/ texts.ptr = "null" \/ output_buffer = "null"
       \/ embedding_dim.null \/ total_written.null
    THEN [code |-> "NullPointer", handle |-> h, offset |-> 0, offsets |-> <<0>>,
          copies |-> <<>>, embedding_dim |-> embedding_dim,
          total_written |-> total_written]
    ELSE batch_finish(
             batch_loop([code |-> "running", handle |-> h, offset |-> 0,
                         offsets |-> <<0>>, copies |-> <<>>,
                         embedding_dim |-> embedding_dim,
                         total_written |-> total_written],
                        texts.items, 0, buffer_size, fault))

\* The C string embedder_get_last_error returns (lib.rs:236-255): a copy of
\* last_error, or the null pointer.
embedder_get_last_error(h) ==
    IF h = NULL THEN NULL
    ELSE IF h.last_error = None THEN NULL
    ELSE h.last_error

\* The arguments of a call that are pointers to the caller's memory: all
\* valid, or one of them null.
NullArgs == {"none", "text", "output_buffer", "out1", "out2"}

OutParam(null_arg, which, value) == [null |-> null_arg = which, value |-> value]

ArgOr(null_arg, which, value) == IF null_arg = which THEN "null" ELSE value

\* A foreign caller holds a handle of a successful embedder_init, made with
\* the artifacts of the registry.
FfiInit ==
    /\ embedder = None
    /\ last = NoCall
    /\ handle \in {embedder_init([ptr |-> "str", s |-> n], env, art).handle :
                     n \in {BERT, JINA},
                     env \in {e \in Envs : e.BERT_MODEL_FOLDER = "unset"
                                             /\ e.JINA_MODEL_FOLDER = "unset"},
                     art \in {a \in Artifacts : a.fault = "none" /\ a.special
                                                  /\ a.padding = "None"}}

EmbedderEmbed ==
    /\ last = NoCall
    /\ \E text \in TextPointers, null_arg \in NullArgs \ {"out2"},
          buffer_size \in BufferSizes, prior \in PriorValues, fault \in FfiFaults :
         /\ fault.text <= 1
         /\ null_arg # "none" =>
              (text = [ptr |-> "str", s |-> <<"a">>] /\ buffer_size = 0
                 /\ fault.text = 0)
         /\ \E r \in {embedder_embed(handle,
                                     IF null_arg = "text" THEN [ptr |-> "null"] ELSE text,
                                     ArgOr(null_arg, "output_buffer", "valid"),
                                     buffer_size,
                                     OutParam(null_arg, "out1", prior),
                                     FaultOfText(fault, 1))} :
              /\ handle' = r.handle
              /\ last' = [op |-> "embedder_embed", text |-> text,
                          null_arg |-> null_arg, buffer_size |-> buffer_size,
                          prior |-> prior, fault |-> fault, code |-> r.code,
                          copies |-> r.copies, actual_size |-> r.actual_size.value,
                          before |-> handle]
    /\ UNCHANGED embedder

EmbedderEmbedBatch ==
    /\ last = NoCall
    /\ \E texts \in TextArrays, null_arg \in NullArgs,
          buffer_size \in BufferSizes, prior \in PriorValues, fault \in FfiFaults :
         /\ texts.ptr = "array"
         /\ fault.text <= Len(texts.items)
         /\ null_arg # "none" =>
              (texts.items = <<[ptr |-> "str", s |-> <<"a">>]>>
                 /\ buffer_size = 0 /\ fault.text = 0)
         /\ \E r \in {embedder_embed_batch(handle,
                          IF null_arg = "text" THEN [ptr |-> "null", items |-> <<>>]
                          ELSE texts,
                          ArgOr(null_arg, "output_buffer", "valid"),
                          buffer_size,
                          OutParam(null_arg, "out1", prior),
                          OutParam(null_arg, "out2", prior), fault)} :
              /\ handle' = r.handle
              /\ last' = [op |-> "embedder_embed_batch", texts |-> texts,
                          null_arg |-> null_arg, buffer_size |-> buffer_size,
                          prior |-> prior, fault |-> fault, code |-> r.code,
                          copies |-> r.copies, offsets |-> r.offsets,
                          embedding_dim |-> r.embedding_dim.value,
                          total_written |-> r.total_written.value,
                          before |-> handle]
    /\ UNCHANGED embedder

\* The caller asks for the last error right after an embedding call.
EmbedderGetLastError ==
    /\ last.op \in {"embedder_embed", "embedder_embed_batch"}
    /\ last' = [op |-> "embedder_get_last_error", after |-> last,
                returned |-> embedder_get_last_error(handle)]
    /\ UNCHANGED <<embedder, handle>>

FfiNext ==
    EmbedderEmbed \/ EmbedderEmbedBatch \/ EmbedderGetLastError \/ EmbedderFree
        \/ Resume

FfiSpec == FfiInit /\ [][FfiNext]_vars

(***************************************************************************)
(* The ALiBi attention bias of the Jina encoder                             *)
(* (jina_implementation/mod.rs:296-355), at the grain of its entries.  A    *)
(* slope -1 / 2^e is written by its exponent e, a reduced fraction n / d,   *)
(* and an entry distance * slope is written -odd * 2^(-exp) with the powers *)
(* of two of the distance moved into the exponent, so that two entries are  *)
(* equal exactly when the numbers are; a zero entry has odd = 0.  The       *)
(* rounding of powf to f32 is left out.                                     *)
(***************************************************************************)
MaxHeads == 12
MaxPos == 3
MaxLayers == 2

\* The fields of Config (mod.rs:16-29) that the encoder's bias depends on.
AlibiConfigs ==
    [num_attention_heads : 1..MaxHeads,
     max_position_embeddings : 1..MaxPos,
     num_hidden_layers : 1..MaxLayers]

Frac(n, d) == [n |-> n \div Gcd(n, d), d |-> d \div Gcd(n, d)]

\* mod.rs:306-309: let mut n_heads2 = 1; while n_heads2 < n_heads { n_heads2 *= 2 }
\* The counters are usize; no product here leaves its range for a head count
\* a checkpoint can have.
RECURSIVE n_heads2_loop(_, _)
n_heads2_loop(n_heads2, n_heads) ==
    IF n_heads2 < n_heads THEN n_heads2_loop(n_heads2 * 2, n_heads) ELSE n_heads2

raw_slope_from_zero(v, n_heads2) == [exp |-> Frac((v - 1) * 8, n_heads2)]

\* mod.rs:311: |v| -1f32 / 2f32.powf((v * 8) as f32 / n_heads2 as f32)
raw_slope(v, n_heads2) == [exp |-> Frac(v * 8, n_heads2)]

\* mod.rs:310-312: (1..=n_heads2).map(..).collect()
raw_slopes(n_heads2) == [v \in 1..n_heads2 |-> raw_slope(v, n_heads2)]

\* Iterator::skip, Iterator::step_by(2) and Iterator::take.
skip(s, n) == SubSeq(s, n + 1, Len(s))

step_by_2(s) == [k \in 1..((Len(s) + 1) \div 2) |-> s[2 * k - 1]]

take(s, n) == SubSeq(s, 1, Min(n, Len(s)))

select_slopes_even_first(slopes, n_heads2, n_heads) ==
    IF n_heads2 = n_heads
    THEN slopes
    ELSE take(step_by_2(slopes) \o step_by_2(skip(slopes, 1)), n_heads)

\* mod.rs:313-324: the raw slopes as they are when n_heads is a power of
\* two, else skip(1).step_by(2) chained with step_by(2), cut at n_heads.
select_slopes(slopes, n_heads2, n_heads) ==
    IF n_heads2 = n_heads
    THEN slopes
    ELSE take(step_by_2(skip(slopes, 1)) \o step_by_2(slopes), n_heads)

RECURSIVE odd_part(_)
odd_part(n) == IF n % 2 = 0 THEN odd_part(n \div 2) ELSE n

RECURSIVE twos(_)
twos(n) == IF n % 2 = 0 THEN 1 + twos(n \div 2) ELSE 0

\* One entry of broadcast_mul (mod.rs:326): distance * slope.
mul(distance, slope) ==
    IF distance = 0
    THEN [odd |-> 0, exp |-> Frac(0, 1)]
    ELSE [odd |-> odd_part(distance),
          exp |-> Frac(slope.exp.n - twos(distance) * slope.exp.d, slope.exp.d)]

\* build_alibi_bias (mod.rs:296-327).  The tensor returned is alibi, of
\* shape (1, n_heads, seq_len, seq_len); the locals are returned with it.
build_alibi_bias(config) ==
    LET n_heads == config.num_attention_heads
        seq_len == config.max_position_embeddings
        distance == [i \in 1..seq_len |-> [j \in 1..seq_len |-> Abs((j - 1) - (i - 1))]]
        n_heads2 == n_heads2_loop(1, n_heads)
        raw == raw_slopes(n_heads2)
        slopes == select_slopes(raw, n_heads2, n_heads)
    IN  [n_heads2 |-> n_heads2,
         raw |-> raw,
         slopes |-> slopes,
         alibi |-> [dims |-> <<1, Len(slopes), seq_len, seq_len>>,
                    data |-> [h \in 1..Len(slopes) |->
                                [i \in 1..seq_len |->
                                   [j \in 1..seq_len |-> mul(distance[i][j], slopes[h])]]]]]

\* BertEncoder::new (mod.rs:336-342).
BertEncoder_new(config) ==
    [alibi |-> build_alibi_bias(config).alibi, layers |-> config.num_hidden_layers]

\* The leading seq_len rows and columns of every head.
block(tensor, seq_len) ==
    [dims |-> <<tensor.dims[1], tensor.dims[2], seq_len, seq_len>>,
     data |-> [h \in 1..tensor.dims[2] |->
                 [i \in 1..seq_len |-> [j \in 1..seq_len |-> tensor.data[h][i][j]]]]]

i_range_to_clamped(tensor, seq_len) == Ok(block(tensor, Min(seq_len, tensor.dims[3])))

\* tensor.i((.., .., ..seq_len, ..seq_len)) (mod.rs:348): a narrow of the last
\* two dimensions, an error when seq_len exceeds their extent.
i_range_to(tensor, seq_len) ==
    IF seq_len > tensor.dims[3] \/ seq_len > tensor.dims[4]
    THEN Err([kind |-> "Candle", at |-> "narrow"])
    ELSE Ok(block(tensor, seq_len))

\* BertLayer::forward (mod.rs:291-293).  What is kept of the hidden states
\* is their sequence length and the bias every layer so far added to its
\* attention scores (mod.rs:177).
BertLayer_forward(xs, bias) == [xs EXCEPT !.biases = Append(@, bias)]

\* mod.rs:350-352: for layer in self.layers.iter() { xs = layer.forward(&xs, &alibi_bias)? }
RECURSIVE layers_loop(_, _, _)
layers_loop(xs, layers, alibi_bias) ==
    IF layers = 0
    THEN xs
    ELSE layers_loop(BertLayer_forward(xs, alibi_bias), layers - 1, alibi_bias)

\* <BertEncoder as Module>::forward (mod.rs:345-355), with the encoder as it
\* is left by the call.
BertEncoder_forward(self, xs) ==
    LET alibi_bias == i_range_to(self.alibi, xs.seq_len)
    IN  [self |-> self,
         result |-> IF alibi_bias.ok
                    THEN Ok(layers_loop(xs, self.layers, alibi_bias.value))
                    ELSE alibi_bias]

\* JinaModel::load (mod.rs:365-373) of a checkpoint with the given config.
LoadJina ==
    /\ last = NoCall
    /\ \E config \in AlibiConfigs :
         \E built \in {build_alibi_bias(config)} :
            /\ embedder' = [arch |-> "Jina", config |-> config,
                            encoder |-> BertEncoder_new(config)]
            /\ last' = [op |-> "JinaModel::load", config |-> config,
                        n_heads2 |-> built.n_heads2, raw |-> built.raw,
                        slopes |-> built.slopes]
    /\ UNCHANGED handle

\* JinaModel::forward (mod.rs:374-383) on input ids of seq_len columns.
ForwardJina ==
    /\ last = NoCall
    /\ embedder # None
    /\ \E seq_len \in 1..(MaxPos + 1) :
         \E r \in {BertEncoder_forward(embedder.encoder,
                                       [seq_len |-> seq_len, biases |-> <<>>])} :
            /\ embedder' = [embedder EXCEPT !.encoder = r.self]
            /\ last' = [op |-> "JinaModel::forward", seq_len |-> seq_len,
                        before |-> embedder, result |-> r.result]
    /\ UNCHANGED handle

AlibiNext == LoadJina \/ ForwardJina \/ Resume

AlibiSpec == Init /\ [][AlibiNext]_vars

(***************************************************************************)
(* Properties.  Each is stated on the record of the most recent call.      *)
(***************************************************************************)
NoFault == [chunk |-> 0, stage |-> "none"]

\* name is target with each letter in either case.
AnyCasingOf(name, target) ==
    /\ Len(name) = Len(target)
    /\ \A i \in 1..Len(target) :
         \/ name[i] = target[i]
         \/ \E k \in 1..Len(LowerCase) :
              LowerCase[k] = target[i] /\ UpperCase[k] = name[i]

NamesVariantA(name) ==
    AnyCasingOf(name, BERT) \/ AnyCasingOf(name, MINI_LM) \/ AnyCasingOf(name, MINI_LM_V2)

NamesVariantB(name) == AnyCasingOf(name, JINA)

\* C1: build selects the architecture by exact, case-insensitive match: any
\* casing of bert, mini_lm or mini_lm_v2 selects Variant A (absolute
\* positions), any casing of jina selects Variant B (ALiBi), and every other
\* string fails with the unknown-model error.
C1_SelectorExactMatch ==
    last.op = "build" =>
        /\ NamesVariantA(last.name) =>
             /\ last.model_type = "Bert"
             /\ \/ ~last.result.ok /\ last.result.error.kind # "ModelTypeError"
                \/ /\ last.result.ok
                   /\ last.result.value.model.arch = "Bert"
                   /\ last.result.value.model.config.position_embedding_type = "Absolute"
        /\ NamesVariantB(last.name) =>
             /\ last.model_type = "Jina"
             /\ \/ ~last.result.ok /\ last.result.error.kind # "ModelTypeError"
                \/ /\ last.result.ok
                   /\ last.result.value.model.arch = "Jina"
                   /\ last.result.value.model.config.position_embedding_type = "Alibi"
        /\ (~NamesVariantA(last.name) /\ ~NamesVariantB(last.name)) =>
             /\ last.model_type = NoneStr
             /\ ~last.result.ok
             /\ last.result.error.kind = "ModelTypeError"
             /\ last.result.error.what = "Unknown model"

C1_Witness ==
    /\ last.op = "build"
    /\ last.name = <<"j","I","n","A">>
    /\ last.result.ok
    /\ last.result.value.model.arch = "Jina"

\* The chunk that text number i of n falls into, and its place there.
ChunkOf(texts, batch_size, i) ==
    SubSeq(texts, ((i - 1) \div batch_size) * batch_size + 1,
           Min(Len(texts), ((i - 1) \div batch_size + 1) * batch_size))

PlaceInChunk(batch_size, i) == ((i - 1) % batch_size) + 1

\* C2: a successful embed_batch returns exactly one vector per text, and the
\* i-th vector is the one computed for texts[i] (in the chunk texts[i] falls
\* into), wherever the chunk boundaries are; no texts give no vectors.
C2_CountAndOrder ==
    (last.op = "embed_batch" /\ last.result.ok) =>
        /\ Len(last.result.value) = Len(last.texts)
        /\ \A i \in 1..Len(last.texts) :
             \E in_chunk \in {Embed_embed(embedder,
                                           ChunkOf(last.texts, last.batch_size, i),
                                           last.batch_size, NoFault).result.value} :
                 last.result.value[i] = in_chunk[PlaceInChunk(last.batch_size, i)]

C2_Witness ==
    /\ last.op = "embed_batch"
    /\ last.result.ok
    /\ last.batch_size = 1
    /\ Len(last.texts) = 2
    /\ last.result.value[1] # last.result.value[2]

\* C3: embed_batch returns the same vectors for every batch size: the vector
\* of a text does not depend on the texts that share its chunk or on the
\* padding the chunk adds, for both variants.
C3_BatchSizeIndependent ==
    (last.op = "embed_batch" /\ last.result.ok) =>
        \A b2 \in 1..MaxBatch :
            Embed_embed(embedder, last.texts, b2, NoFault).result.value
                = last.result.value

\* C4: embed_one(t) is the first element of embed_batch([t], 1): it succeeds
\* exactly when that call succeeds, with the same vector, which is not the
\* empty vector, and fails with the same error.
C4_EmbedOneIsBatchOfOne ==
    last.op = "embed_one" =>
        \E b \in {Embed_embed(embedder, <<last.text>>, 1, last.fault).result} :
            /\ last.result.ok <=> b.ok
            /\ last.result.ok =>
                 /\ last.result.value = b.value[1]
                 /\ last.result.value # EmptyVec
                 /\ last.result.value.dim > 0
            /\ ~last.result.ok => last.result.error = b.error

C4_Witness ==
    /\ last.op = "embed_one"
    /\ last.text = <<"a","b">>
    /\ last.fault = NoFault
    /\ last.result.ok
    /\ last.result.value.dim > 0

\* C5: a failure of tokenization, tensor construction, the forward pass or
\* pooling in any chunk makes the whole embed_batch call an error, and the
\* caller gets none of the vectors of the chunks before it.
C5_NoPartialResults ==
    (/\ last.op = "embed_batch"
     /\ last.fault.chunk \in 1..NumChunks(Len(last.texts), last.batch_size)) =>
        /\ ~last.result.ok
        /\ last.result.error = StageError(last.fault.stage)
        /\ last.result.value = <<>>

C5_Witness ==
    /\ last.op = "embed_batch"
    /\ last.fault.chunk = 2
    /\ last.batch_size = 1
    /\ Len(last.texts) = 2
    /\ last.result.forwards >= 1
    /\ ~last.result.ok

\* C6: every vector a successful embed_batch or embed_one returns has the
\* hidden size of the preset selected at construction as its length: 384
\* for Variant A, 768 for Variant B.
C6_VectorLength ==
    /\ (last.op = "build" /\ last.result.ok) =>
          last.result.value.model.config.hidden_size
              = (IF NamesVariantA(last.name) THEN 384 ELSE 768)
    /\ (last.op = "embed_batch" /\ last.result.ok) =>
          \A i \in 1..Len(last.result.value) :
              last.result.value[i].dim
                  = (IF embedder.model.arch = "Bert" THEN 384 ELSE 768)
    /\ (last.op = "embed_one" /\ last.result.ok) =>
          last.result.value.dim = (IF embedder.model.arch = "Bert" THEN 384 ELSE 768)

C6_Witness ==
    /\ last.op = "embed_batch"
    /\ last.result.ok
    /\ Len(last.result.value) = 2
    /\ embedder.model.arch = "Jina"
    /\ \A i \in 1..2 : last.result.value[i].dim = 768

\* C7: normalisation guards a zero norm: every vector of a successful call is
\* well defined, an all-zero pooled row being divided by a floored norm and
\* not by zero.
C7_ZeroNormGuarded ==
    /\ (last.op = "embed_batch" /\ last.result.ok) =>
          \A i \in 1..Len(last.result.value) : last.result.value[i].norm2 > 0
    /\ (last.op = "embed_one" /\ last.result.ok) => last.result.value.norm2 > 0

\* C8: the unknown-model error carries the name exactly as the caller passed
\* it and the list of every name the selector accepts.
C8_UnknownModelCarries ==
    (last.op = "build" /\ last.model_type = NoneStr) =>
        /\ last.result.error.name = last.name
        /\ {last.result.error.supported[i] :
                i \in 1..Len(last.result.error.supported)}
              = {BERT, MINI_LM, MINI_LM_V2, JINA}

\* The folder variable of the selected architecture names a directory.
LocalUsed(name, env) ==
    \/ NamesVariantA(name) /\ env.BERT_MODEL_FOLDER = "set"
    \/ NamesVariantB(name) /\ env.JINA_MODEL_FOLDER = "set"

\* C9: when the local directory is used and the tokenizer file or the weights
\* file is absent, construction fails with NotFound naming a missing file
\* (the weights file when only that one is missing) and nothing is fetched
\* from the registry; the registry is contacted only when the local
\* directory is not used.
C9_LocalResolution ==
    (last.op = "build" /\ last.model_type # NoneStr) =>
        /\ (/\ LocalUsed(last.name, last.env)
            /\ ~(last.env.tokenizer_json /\ last.env.model_safetensors)) =>
              /\ ~last.result.ok
              /\ last.result.error.kind = "Io"
              /\ last.result.error.io_kind = "NotFound"
              /\ \/ last.result.error.file = "tokenizer.json" /\ ~last.env.tokenizer_json
                 \/ last.result.error.file = "model.safetensors"
                        /\ ~last.env.model_safetensors
              /\ last.env.tokenizer_json => last.result.error.file = "model.safetensors"
        /\ LocalUsed(last.name, last.env) => last.gets = 0
        /\ last.gets > 0 => ~LocalUsed(last.name, last.env)

C9_Witness ==
    /\ last.op = "build"
    /\ LocalUsed(last.name, last.env)
    /\ last.env.tokenizer_json
    /\ ~last.env.model_safetensors
    /\ last.art.fault = "none"
    /\ ~last.result.ok
    /\ last.result.error.file = "model.safetensors"
    /\ last.gets = 0

\* A construction with these inputs has a failing step.
ConstructionFails(name, env, art) ==
    \/ ~NamesVariantA(name) /\ ~NamesVariantB(name)
    \/ LocalUsed(name, env) /\ ~(env.tokenizer_json /\ env.model_safetensors)
    \/ ~LocalUsed(name, env) /\ art.fault \in {"hub_tokenizer", "hub_weights"}
    \/ art.fault \in {"tokenizer", "weights", "model"}

Complete(e) ==
    /\ e.model # None
    /\ e.model.arch \in {"Bert", "Jina"}
    /\ e.tokenizer # None

\* C10: a failure at any step of construction yields no embedder: build
\* returns an error and the caller holds no embedder, embedder_init returns
\* the null handle, and an embedder that an embed call runs on is complete.
C10_NoPartialEmbedder ==
    /\ last.op = "build" =>
          /\ ConstructionFails(last.name, last.env, last.art) <=> ~last.result.ok
          /\ ~last.result.ok => (embedder = None /\ last.result.value = None)
    /\ last.op = "embedder_init" =>
          /\ (\/ last.name.ptr # "str"
              \/ ConstructionFails(last.name.s, last.env, last.art))
                <=> last.returned = NULL
          /\ handle = last.returned
    /\ embedder # None => Complete(embedder)
    /\ handle # NULL => Complete(handle.embedder)

C10_Witness ==
    /\ last.op = "embedder_init"
    /\ last.name.ptr = "str"
    /\ NamesVariantB(last.name.s)
    /\ last.art.fault = "weights"
    /\ last.returned = NULL
    /\ handle = NULL

\* msg is a description of a failure with status code.
Describes(msg, code) ==
    \/ code = "NullPointer" /\ msg.what = "Null text pointer"
    \/ code = "InvalidUtf8" /\ msg.what = "Invalid UTF-8"
    \/ code = "EmbeddingFailed" /\ msg.what = "Embedding failed"
    \/ code = "BufferTooSmall" /\ msg.what \in {"Buffer too small", "Buffer overflow"}

\* C11: on a valid handle, the last-error accessor returns the description
\* of the most recent call if that call failed, whatever its status code,
\* and the null pointer if that call returned Success.
C11_LastErrorIsMostRecent ==
    (last.op = "embedder_get_last_error" /\ last.after.before # NULL) =>
        /\ last.after.code = "Success" => last.returned = NULL
        /\ last.after.code # "Success" =>
             /\ last.returned # NULL
             /\ Describes(last.returned, last.after.code)

\* C12: when embedder_embed_batch returns Success, embedding_dim holds the
\* per-item dimension, total_written is num_texts times it, and the buffer
\* holds the vector of text i at offset i * dimension, for every num_texts,
\* zero included.
C12_BatchOutputs ==
    (last.op = "embedder_embed_batch" /\ last.code = "Success") =>
        \E dim \in {handle.embedder.model.config.hidden_size} :
            /\ last.embedding_dim = dim
            /\ last.total_written = Len(last.texts.items) * dim
            /\ Len(last.copies) = Len(last.texts.items)
            /\ \A i \in 1..Len(last.texts.items) :
                 /\ last.copies[i].at = (i - 1) * dim
                 /\ last.copies[i].vec =
                        TextEmbedder_embed(handle.embedder, last.texts.items[i].s,
                                           NoFault).result.value

RECURSIVE Flatten(_)
Flatten(seqs) == IF seqs = <<>> THEN <<>> ELSE Head(seqs) \o Flatten(Tail(seqs))

\* C13: embed_batch works on contiguous chunks in the original order: no
\* chunk is empty or longer than batch_size, every chunk but the last has
\* exactly batch_size texts, the chunks concatenated are the texts, and the
\* loop ends after ceil(len(texts) / batch_size) forward passes, made one
\* after another.
C13_ChunkPartition ==
    (last.op = "embed_batch" /\ last.result.ok) =>
        \E passes \in {last.result.passes} :
            /\ Len(passes) = NumChunks(Len(last.texts), last.batch_size)
            /\ last.result.forwards = Len(passes)
            /\ \A k \in 1..Len(passes) :
                 /\ Len(passes[k].chunk) >= 1
                 /\ Len(passes[k].chunk) <= last.batch_size
                 /\ k < Len(passes) => Len(passes[k].chunk) = last.batch_size
            /\ Flatten([k \in 1..Len(passes) |-> passes[k].chunk]) = last.texts

C13_Witness ==
    /\ last.op = "embed_batch"
    /\ last.result.ok
    /\ Len(last.texts) = 3
    /\ last.batch_size = 2
    /\ Len(last.result.passes) = 2
    /\ Len(last.result.passes[2].chunk) = 1

\* The number of tokens of a text, before any padding.
TokenLength(tokenizer, text) == Len(encode(tokenizer, text, TRUE).ids)

\* C14: in every chunk the padded sequence length fed to the backbone is the
\* token length of the longest text of that chunk, whatever padding the
\* loaded tokenizer carried, and token ids, attention mask and segment ids
\* all have that shape.
C14_PaddedToChunkLongest ==
    (last.op = "embed_batch" /\ last.result.ok) =>
        \A k \in 1..Len(last.result.passes) :
            \E pass \in {last.result.passes[k]} :
                \E longest \in {SeqMax([i \in 1..Len(pass.chunk) |->
                                   TokenLength(embedder.tokenizer, pass.chunk[i])])} :
                    /\ pass.seq_len = longest
                    /\ pass.token_ids = <<Len(pass.chunk), longest>>
                    /\ pass.mask = <<Len(pass.chunk), longest>>
                    /\ pass.token_type_ids = <<Len(pass.chunk), longest>>

\* The sum of the hidden vectors of a row at the positions whose mask is 1,
\* and the number of those positions.
MaskedSum(hidden_row, mask_row) ==
    [d \in 1..SampleDims |->
        SeqSum([i \in 1..Len(mask_row) |->
                  IF mask_row[i] = 1 THEN hidden_row[i][d] ELSE 0])]

MaskCount(mask_row) == Cardinality({i \in 1..Len(mask_row) : mask_row[i] = 1})

\* C15: the pooled vector of an item is the sum of its hidden vectors at the
\* positions with mask 1 divided by max(number of such positions, floor),
\* with a positive floor below 1; for a single-token unpadded sequence it is
\* that token's hidden vector itself.
C15_MaskedMean ==
    (last.op = "embed_batch" /\ last.result.ok) =>
        \A k \in 1..Len(last.result.passes) :
            \E pass \in {last.result.passes[k]} :
                \A b \in 1..Len(pass.chunk) :
                    \E mean \in {pass.mean_embeddings.data[b]},
                       hidden \in {pass.embeddings.data[b]},
                       mask \in {pass.attention_mask[b]} :
                        /\ mean.num = MaskedSum(hidden, mask)
                        /\ MaskCount(mask) >= 1 =>
                             mean.den = [n |-> MaskCount(mask), d |-> 1]
                        /\ MaskCount(mask) = 0 =>
                             (mean.den.n > 0 /\ mean.den.n < mean.den.d)
                        /\ mask = <<1>> =>
                             (mean.num = hidden[1] /\ mean.den = [n |-> 1, d |-> 1])

C15_Witness ==
    /\ last.op = "embed_batch"
    /\ last.result.ok
    /\ Len(last.texts) = 2
    /\ last.batch_size = 2
    /\ last.result.passes[1].attention_mask = <<<<1, 0>>, <<1, 1>>>>
    /\ last.result.passes[1].embeddings.data[1][2] # <<0, 0>>
    /\ last.result.passes[1].mean_embeddings.data[1].num
          = last.result.passes[1].embeddings.data[1][1]

\* The exponent e of the entry -1 / 2^e is the fraction n / d.
ExpIs(slope, n, d) == slope.exp.n * d = n * slope.exp.d

IsPowerOfTwo(n) == \E e \in 0..n : n = 2^e

\* C16: for every head count H >= 1, H2 is the smallest power of two with
\* H2 >= H, there are exactly H2 raw slopes, slope[k] = -1 / 2^(8k / H2) for
\* k = 1..H2, and exactly H final slopes; for H = 12 that is 16, 16 and 12.
C16_SlopeDerivation ==
    last.op = "JinaModel::load" =>
        \E H \in {last.config.num_attention_heads}, H2 \in {last.n_heads2} :
            /\ IsPowerOfTwo(H2)
            /\ H2 >= H
            /\ \A p \in 1..(H2 - 1) : IsPowerOfTwo(p) => p < H
            /\ Len(last.raw) = H2
            /\ \A k \in 1..H2 : ExpIs(last.raw[k], 8 * k, H2)
            /\ Len(last.slopes) = H
            /\ H = 12 => (H2 = 16 /\ Len(last.raw) = 16 /\ Len(last.slopes) = 12)

C16_Witness ==
    /\ last.op = "JinaModel::load"
    /\ last.config.num_attention_heads = 12
    /\ last.n_heads2 = 16
    /\ Len(last.raw) = 16
    /\ Len(last.slopes) = 12

\* C17: when H is a power of two the final slopes are the raw slopes, in
\* order; otherwise they are the first H entries of the raw slopes at the
\* 0-indexed positions 1, 3, 5, ... followed by those at 0, 2, 4, ...; no raw
\* slope is selected twice.
C17_SlopeSelection ==
    last.op = "JinaModel::load" =>
        \E H \in {last.config.num_attention_heads}, odds \in {last.n_heads2 \div 2} :
            /\ IsPowerOfTwo(H) => last.slopes = last.raw
            /\ ~IsPowerOfTwo(H) =>
                 \A h \in 1..H :
                    last.slopes[h] = IF h <= odds
                                     THEN last.raw[2 * h]
                                     ELSE last.raw[2 * (h - odds) - 1]
            /\ \A h1, h2 \in 1..Len(last.slopes) :
                 h1 # h2 => last.slopes[h1] # last.slopes[h2]
            /\ last.slopes = build_alibi_bias(last.config).slopes

C17_Witness ==
    /\ last.op = "JinaModel::load"
    /\ last.config.num_attention_heads = 6
    /\ last.n_heads2 = 8
    /\ last.slopes = <<last.raw[2], last.raw[4], last.raw[6], last.raw[8],
                       last.raw[1], last.raw[3]>>

\* The bias of a direct construction: entry (h, i, j) is |i - j| * slope[h].
DirectBias(slopes, seq_len) ==
    [h \in 1..Len(slopes) |->
        [i \in 1..seq_len |-> [j \in 1..seq_len |-> mul(Abs(i - j), slopes[h])]]]

\* C18: the bias is built at load for the configured maximum length S as
\* bias[h][i][j] = |i - j| * slope[h]; a call with sequence length L <= S
\* gives every layer the same bias, the top-left L x L block of every head,
\* equal to a direct construction for length L; a forward pass leaves the
\* stored bias as it was; a call with L > S fails before any layer runs.
C18_BiasBuiltOnceAndSliced ==
    /\ last.op = "JinaModel::load" =>
         /\ embedder.encoder.alibi.data
               = DirectBias(last.slopes, last.config.max_position_embeddings)
         /\ embedder.encoder.alibi.dims
               = <<1, last.config.num_attention_heads,
                   last.config.max_position_embeddings,
                   last.config.max_position_embeddings>>
    /\ last.op = "JinaModel::forward" =>
         \E L \in {last.seq_len}, config \in {last.before.config},
            stored \in {last.before.encoder.alibi} :
            /\ embedder = last.before
            /\ L <= config.max_position_embeddings =>
                 /\ last.result.ok
                 /\ Len(last.result.value.biases) = config.num_hidden_layers
                 /\ \A l \in 1..config.num_hidden_layers :
                      \E bias \in {last.result.value.biases[l]} :
                         /\ bias.dims = <<1, config.num_attention_heads, L, L>>
                         /\ \A h \in 1..config.num_attention_heads :
                              \A i, j \in 1..L :
                                 bias.data[h][i][j] = stored.data[h][i][j]
                         /\ bias.data
                               = DirectBias(build_alibi_bias(config).slopes, L)
            /\ L > config.max_position_embeddings => ~last.result.ok

C18_Witness ==
    /\ last.op = "JinaModel::forward"
    /\ last.before.config.num_attention_heads = 3
    /\ last.before.config.max_position_embeddings = 3
    /\ last.before.config.num_hidden_layers = 2
    /\ last.seq_len = 2
    /\ last.result.ok
    /\ Len(last.result.value.biases) = 2
    /\ last.result.value.biases[1].data[3][1][2] # last.result.value.biases[1].data[1][1][2]

\* The calls of a foreign caller that pass every pointer check and whose
\* embeddings all succeed.
WellFormedCall ==
    /\ last.before # NULL
    /\ last.null_arg = "none"
    /\ last.fault.text = 0

\* C19: neither embedding call writes beyond buffer_size floats.  In
\* embedder_embed a result longer than buffer_size gives BufferTooSmall with
\* actual_size set to the needed length and nothing copied.  In
\* embedder_embed_batch every copy starts at the running offset and ends
\* within buffer_size, the offset never exceeds buffer_size, and a return
\* other than Success leaves total_written as the caller had it, whatever
\* was copied before.
C19_BufferSafety ==
    /\ last.op = "embedder_embed" =>
         /\ \A k \in 1..Len(last.copies) :
              last.copies[k].at + last.copies[k].vec.dim <= last.buffer_size
         /\ (WellFormedCall /\ last.text.ptr = "str") =>
              \E need \in {last.before.embedder.model.config.hidden_size} :
                 need > last.buffer_size =>
                    /\ last.code = "BufferTooSmall"
                    /\ last.actual_size = need
                    /\ last.copies = <<>>
    /\ last.op = "embedder_embed_batch" =>
         /\ \A k \in 1..Len(last.copies) :
              /\ last.copies[k].at = last.offsets[k]
              /\ last.copies[k].at + last.copies[k].vec.dim <= last.buffer_size
              /\ last.offsets[k + 1] = last.copies[k].at + last.copies[k].vec.dim
         /\ Len(last.offsets) = Len(last.copies) + 1
         /\ \A k \in 1..Len(last.offsets) : last.offsets[k] <= last.buffer_size
         /\ last.code # "Success" => last.total_written = last.prior

C19_Witness ==
    /\ last.op = "embedder_embed_batch"
    /\ last.code = "BufferTooSmall"
    /\ Len(last.texts.items) = 2
    /\ Len(last.copies) = 1
    /\ last.copies[1].vec.dim = last.buffer_size
    /\ last.prior = 0
    /\ last.total_written = 0

====
